---- MODULE Spec2Model ----
(***************************************************************************)
(* Model of the daily joke / news badge generator (src/main.js).           *)
(*                                                                         *)
(* src/main.js holds two versions of the script:                           *)
(*   lines   1-200  the headline variant ("H"): Groq chat -> Gemini,       *)
(*                  a headline fetched from NewsAPI or GNews;              *)
(*   lines 201-360  the local-fallback variant ("L"): Gemini -> Groq        *)
(*                  completion -> a local list.                            *)
(*                                                                         *)
(* A text is a sequence of one-character strings.                          *)
(***************************************************************************)
EXTENDS Integers, Sequences, FiniteSets, TLC

VARIABLES
    variant,      \* which of the two scripts runs: "H" or "L"
    env,          \* process.env: which credentials are set
    today,        \* new Date(): [iso, day, date]
    pc,           \* position of the process
    runs,         \* runs started so far
    exitCode,     \* process exit status of the current run
    headline,     \* main's local `headline`
    joke,         \* main's local `joke`
    reaction,     \* main's local `reaction` (H) / `news` (L)
    invoked,      \* the attempts (providers, local list) made so far in the run
    stderr,       \* console.warn / console.error lines of the run
    jokesTxt,     \* jokes.txt: the strings appended so far
    newsTxt,      \* news.txt: the strings appended so far
    reactionTxt,  \* reaction.txt
    jokeSvg,      \* joke.svg
    newsSvg,      \* news.svg
    pre,          \* the five files as they were when the run started
    fnIn,         \* function harness: the function called and its arguments
    fnOut         \* function harness: what the call returned

vars == <<variant, env, today, pc, runs, exitCode, headline, joke, reaction,
          invoked, stderr, jokesTxt, newsTxt, reactionTxt, jokeSvg, newsSvg,
          pre, fnIn, fnOut>>

runVars == <<variant, env, today, pc, runs, exitCode, headline, joke,
             reaction, invoked, stderr, jokesTxt, newsTxt, reactionTxt,
             jokeSvg, newsSvg, pre>>

(***************************************************************************)
(* Bounds                                                                  *)
(***************************************************************************)
MaxRuns == 2        \* runs of the script in one behaviour
MaxWrapLen == 4     \* longest text given to wrapText in the harness
MaxWrapWidth == 3   \* largest maxChars given to wrapText in the harness
MaxSvgLen == 2      \* longest title / content given to writeSvg in the harness

(***************************************************************************)
(* JavaScript string primitives                                            *)
(***************************************************************************)
NL == "\n"
SP == " "

\* what String.prototype.trim strips (of the characters the model uses)
IsSpace(c) == c = SP \/ c = NL

\* s.trim()
Trim(s) ==
    IF \A i \in 1..Len(s) : IsSpace(s[i]) THEN <<>>
    ELSE SubSeq(s,
                CHOOSE i \in 1..Len(s) :
                    ~IsSpace(s[i]) /\ \A j \in 1..(i - 1) : IsSpace(s[j]),
                Len(s) - CHOOSE d \in 0..(Len(s) - 1) :
                             /\ ~IsSpace(s[Len(s) - d])
                             /\ \A j \in (Len(s) - d + 1)..Len(s) : IsSpace(s[j]))

\* the index of the first sep in s at or after i; Len(s) + 1 when there is none
nextSep(s, sep, i) ==
    CHOOSE j \in i..(Len(s) + 1) :
        /\ j = Len(s) + 1 \/ s[j] = sep
        /\ \A k \in i..(j - 1) : s[k] # sep

\* the pieces of s from index i on, the first of them ending before index j
RECURSIVE SplitFrom(_, _, _, _)
SplitFrom(s, sep, i, j) ==
    IF j > Len(s) THEN <<SubSeq(s, i, Len(s))>>
    ELSE <<SubSeq(s, i, j - 1)>> \o SplitFrom(s, sep, j + 1, nextSep(s, sep, j + 1))

\* s.split(sep) for a one-character separator: n separators give n + 1
\* pieces, so "" gives [""]
Split(s, sep) == SplitFrom(s, sep, 1, nextSep(s, sep, 1))

\* parts.join(sep)
RECURSIVE Join(_, _)
Join(parts, sep) ==
    IF parts = <<>> THEN <<>>
    ELSE IF Len(parts) = 1 THEN parts[1]
    ELSE parts[1] \o sep \o Join(Tail(parts), sep)

\* s.replace(/c/g, by): every occurrence of the character c becomes the text by
ReplaceAll(s, c, by) ==
    IF \A i \in 1..Len(s) : s[i] # c THEN s ELSE Join(Split(s, c), by)

\* the value `undefined`, kept apart from every text
UNDEF == <<"#undefined">>

\* `${v}` in a template literal
Str(v) == IF v = UNDEF THEN <<"u", "n", "d", "e", "f", "i", "n", "e", "d">> ELSE v

(***************************************************************************)
(* escapeSvg, wrapText, writeSvg                                           *)
(***************************************************************************)
AMP == <<"&", "a", "m", "p", ";">>
LT == <<"&", "l", "t", ";">>
GT == <<"&", "g", "t", ";">>

escapeSvg(text) ==
    ReplaceAll(ReplaceAll(ReplaceAll(text, "&", AMP), "<", LT), ">", GT)

\* the body of wrapText's for loop, from word i on
RECURSIVE wrapLoop(_, _, _, _, _)
wrapLoop(words, i, lines, line, maxChars) ==
    IF i > Len(words) THEN [lines |-> lines, line |-> line]
    ELSE IF Len(line) + Len(words[i]) > maxChars
         THEN wrapLoop(words, i + 1, Append(lines, Trim(line)),
                       words[i] \o <<SP>>, maxChars)
         ELSE wrapLoop(words, i + 1, lines, line \o words[i] \o <<SP>>, maxChars)

wrapText(text, maxChars) ==
    LET r == wrapLoop(Split(text, SP), 1, <<>>, <<>>, maxChars)
    IN  IF Trim(r.line) # <<>> THEN Append(r.lines, Trim(r.line)) ELSE r.lines

DefaultMaxChars == 90

\* The document writeSvg builds.  The fixed markup of the template is the
\* record's shape; its fields are the places where the template embeds a value.
SvgDoc(base, title, content, accent, dateStr) ==
    LET lines == wrapText(content, DefaultMaxChars)
    IN  [height |-> base + Len(lines) * 22,
         accent |-> accent,
         title  |-> title,
         date   |-> dateStr,
         text   |-> [i \in 1..Len(lines) |->
                        [y |-> 60 + (i - 1) * 22, body |-> escapeSvg(lines[i])]]]

BaseHeight_H == 70
BaseHeight_L == 60

\* Variant of writeSvg_H that wraps `content || ""`, so that an undefined
\* content gives a badge without body lines instead of a TypeError.
writeSvg_H_lenient(title, content, accent, dateStr) ==
    [ok |-> TRUE,
     doc |-> <<SvgDoc(BaseHeight_H, title, IF content = UNDEF THEN <<>> ELSE content,
                      accent, dateStr)>>]

\* what writeSvg hands to fs.writeFileSync; wrapText(undefined) throws before that
writeSvg_H(title, content, accent, dateStr) ==
    IF content = UNDEF
    THEN [ok |-> FALSE, doc |-> <<>>]
    ELSE [ok |-> TRUE, doc |-> <<SvgDoc(BaseHeight_H, title, content, accent, dateStr)>>]

writeSvg_L(title, content, accent, dateStr) ==
    IF content = UNDEF
    THEN [ok |-> FALSE, doc |-> <<>>]
    ELSE [ok |-> TRUE, doc |-> <<SvgDoc(BaseHeight_L, title, content, accent, dateStr)>>]

(***************************************************************************)
(* String literals of the program                                          *)
(***************************************************************************)
\* "Why do programmers prefer dark mode? Because light attracts bugs."
JokeFallback1 ==
    <<"W", "h", "y", " ", "d", "o", " ", "p", "r", "o", "g", "r", "a", "m",
    "m", "e", "r", "s", " ", "p", "r", "e", "f", "e", "r", " ", "d", "a",
    "r", "k", " ", "m", "o", "d", "e", "?", " ", "B", "e", "c", "a", "u",
    "s", "e", " ", "l", "i", "g", "h", "t", " ", "a", "t", "t", "r", "a",
    "c", "t", "s", " ", "b", "u", "g", "s", ".">>

\* "A programmer walks into a bar and orders 1.000000119 beers."
JokeFallback2 ==
    <<"A", " ", "p", "r", "o", "g", "r", "a", "m", "m", "e", "r", " ", "w",
    "a", "l", "k", "s", " ", "i", "n", "t", "o", " ", "a", " ", "b", "a",
    "r", " ", "a", "n", "d", " ", "o", "r", "d", "e", "r", "s", " ", "1",
    ".", "0", "0", "0", "0", "0", "0", "1", "1", "9", " ", "b", "e", "e",
    "r", "s", ".">>

\* "There are only two hard things in computer science: cache invalidation and naming things."
JokeFallback3 ==
    <<"T", "h", "e", "r", "e", " ", "a", "r", "e", " ", "o", "n", "l", "y",
    " ", "t", "w", "o", " ", "h", "a", "r", "d", " ", "t", "h", "i", "n",
    "g", "s", " ", "i", "n", " ", "c", "o", "m", "p", "u", "t", "e", "r",
    " ", "s", "c", "i", "e", "n", "c", "e", ":", " ", "c", "a", "c", "h",
    "e", " ", "i", "n", "v", "a", "l", "i", "d", "a", "t", "i", "o", "n",
    " ", "a", "n", "d", " ", "n", "a", "m", "i", "n", "g", " ", "t", "h",
    "i", "n", "g", "s", ".">>

\* "Tech company announces AI breakthrough, quietly ships more bugs."
NewsFallback1 ==
    <<"T", "e", "c", "h", " ", "c", "o", "m", "p", "a", "n", "y", " ", "a",
    "n", "n", "o", "u", "n", "c", "e", "s", " ", "A", "I", " ", "b", "r",
    "e", "a", "k", "t", "h", "r", "o", "u", "g", "h", ",", " ", "q", "u",
    "i", "e", "t", "l", "y", " ", "s", "h", "i", "p", "s", " ", "m", "o",
    "r", "e", " ", "b", "u", "g", "s", ".">>

\* "Major platform promises performance improvements, users remain skeptical."
NewsFallback2 ==
    <<"M", "a", "j", "o", "r", " ", "p", "l", "a", "t", "f", "o", "r", "m",
    " ", "p", "r", "o", "m", "i", "s", "e", "s", " ", "p", "e", "r", "f",
    "o", "r", "m", "a", "n", "c", "e", " ", "i", "m", "p", "r", "o", "v",
    "e", "m", "e", "n", "t", "s", ",", " ", "u", "s", "e", "r", "s", " ",
    "r", "e", "m", "a", "i", "n", " ", "s", "k", "e", "p", "t", "i", "c",
    "a", "l", ".">>

\* "Developers celebrate new framework, rewrite everything again."
NewsFallback3 ==
    <<"D", "e", "v", "e", "l", "o", "p", "e", "r", "s", " ", "c", "e", "l",
    "e", "b", "r", "a", "t", "e", " ", "n", "e", "w", " ", "f", "r", "a",
    "m", "e", "w", "o", "r", "k", ",", " ", "r", "e", "w", "r", "i", "t",
    "e", " ", "e", "v", "e", "r", "y", "t", "h", "i", "n", "g", " ", "a",
    "g", "a", "i", "n", ".">>

\* "Daily Joke"
DailyJoke ==
    <<"D", "a", "i", "l", "y", " ", "J", "o", "k", "e">>

\* "Daily News"
DailyNews ==
    <<"D", "a", "i", "l", "y", " ", "N", "e", "w", "s">>

\* "Daily Tech News"
DailyTechNews ==
    <<"D", "a", "i", "l", "y", " ", "T", "e", "c", "h", " ", "N", "e", "w",
    "s">>

\* "business"
Cat_business ==
    <<"b", "u", "s", "i", "n", "e", "s", "s">>

\* "entertainment"
Cat_entertainment ==
    <<"e", "n", "t", "e", "r", "t", "a", "i", "n", "m", "e", "n", "t">>

\* "general"
Cat_general ==
    <<"g", "e", "n", "e", "r", "a", "l">>

\* "health"
Cat_health ==
    <<"h", "e", "a", "l", "t", "h">>

\* "science"
Cat_science ==
    <<"s", "c", "i", "e", "n", "c", "e">>

\* "sports"
Cat_sports ==
    <<"s", "p", "o", "r", "t", "s">>

\* "technology"
Cat_technology ==
    <<"t", "e", "c", "h", "n", "o", "l", "o", "g", "y">>

\* "2026-10-30"
Date1 ==
    <<"2", "0", "2", "6", "-", "1", "0", "-", "3", "0">>

\* "2026-11-01"
Date2 ==
    <<"2", "0", "2", "6", "-", "1", "1", "-", "0", "1">>

(***************************************************************************)
(* Dates and category rotation                                             *)
(***************************************************************************)
\* new Date() on two days: [iso |-> toISOString().split("T")[0],
\*                          day |-> getDay(), date |-> getDate()]
Day1 == [iso |-> Date1, day |-> 5, date |-> 30]
Day2 == [iso |-> Date2, day |-> 0, date |-> 1]

Days == {Day1, Day2}

CATEGORY_ROTATION ==
    <<Cat_business, Cat_entertainment, Cat_general, Cat_health, Cat_science,
      Cat_sports, Cat_technology>>

category(d) == CATEGORY_ROTATION[d.day + 1]

useGNews(d) == d.date % 2 = 0

LowerCase == <<"a", "b", "c", "d", "e", "f", "g", "h", "i", "j", "k", "l", "m",
               "n", "o", "p", "q", "r", "s", "t", "u", "v", "w", "x", "y", "z">>
UpperCase == <<"A", "B", "C", "D", "E", "F", "G", "H", "I", "J", "K", "L", "M",
               "N", "O", "P", "Q", "R", "S", "T", "U", "V", "W", "X", "Y", "Z">>

\* s.toUpperCase()
toUpperCase(s) ==
    [i \in 1..Len(s) |->
        IF \E k \in 1..26 : LowerCase[k] = s[i]
        THEN UpperCase[CHOOSE k \in 1..26 : LowerCase[k] = s[i]]
        ELSE s[i]]

\* categoryColors[category] || "#58a6ff"
categoryColors(c) ==
    CASE c = Cat_business      -> "#ff9f1a"
      [] c = Cat_entertainment -> "#ff3f7f"
      [] c = Cat_general       -> "#58a6ff"
      [] c = Cat_health        -> "#1dd3b0"
      [] c = Cat_science       -> "#9b5de5"
      [] c = Cat_sports        -> "#ff6b6b"
      [] c = Cat_technology    -> "#f5c518"
      [] OTHER                 -> "#58a6ff"

(***************************************************************************)
(* What the remote services may answer                                     *)
(***************************************************************************)
\* Groq chat stream: the call rejects ("error"), a chunk has no `choices`
\* ("malformed"), or a stream of chunks, each the text of delta.content
\* (UNDEF when the chunk carries none).
GroqStreams ==
    {[kind |-> "error",     chunks |-> <<>>],
     [kind |-> "malformed", chunks |-> <<>>],
     [kind |-> "stream",    chunks |-> <<>>],
     [kind |-> "stream",    chunks |-> <<UNDEF>>],
     [kind |-> "stream",    chunks |-> << <<NL>>, <<SP>> >>],
     [kind |-> "stream",    chunks |-> << <<"q", NL>>, UNDEF, <<"k">> >>]}

\* Gemini generateContent: the call rejects, the answer lacks
\* candidates[0].content.parts[0].text, or it carries a text.
GeminiAnswers ==
    {[kind |-> "error",     text |-> <<>>],
     [kind |-> "malformed", text |-> <<>>],
     [kind |-> "json",      text |-> <<>>],
     [kind |-> "json",      text |-> <<SP, NL>>],
     [kind |-> "json",      text |-> <<SP, "g", NL, "m", NL>>]}

\* Groq completion endpoint: fetch or res.json() rejects, the JSON has no
\* output_text, or it carries one.
GroqAnswers ==
    {[kind |-> "error",     text |-> <<>>],
     [kind |-> "malformed", text |-> <<>>],
     [kind |-> "json",      text |-> <<>>],
     [kind |-> "json",      text |-> <<NL, SP>>],
     [kind |-> "json",      text |-> <<"q", NL, "k", SP>>]}

\* News backends: fetch or res.json() rejects, or a JSON body whose
\* `articles` holds the titles given.
NewsAnswers ==
    {[kind |-> "error", articles |-> <<>>],
     [kind |-> "json",  articles |-> <<>>],
     [kind |-> "json",  articles |-> << <<"A", "&", "B">> >>],
     [kind |-> "json",  articles |-> << <<"a", NL, "b">>, <<"c">> >>]}

\* The answers the whole-process specification draws from: for each service
\* a rejected call and an answer carrying a text.  The model behind either
\* service is asked for the same thing, and the answers here carry the same
\* words, "q k", each in the whitespace its endpoint wraps them in (the
\* function harness draws from the full sets above, whose texts differ).
RunGroqStreams ==
    {[kind |-> "error",  chunks |-> <<>>],
     [kind |-> "stream", chunks |-> << <<"q", NL>>, UNDEF, <<"k">> >>]}
RunGeminiAnswers ==
    {[kind |-> "error", text |-> <<>>],
     [kind |-> "json",  text |-> <<SP, "q", NL, "k", NL>>]}
RunGroqAnswers ==
    {[kind |-> "error", text |-> <<>>],
     [kind |-> "json",  text |-> <<"q", NL, "k", SP>>]}

(***************************************************************************)
(* Provider clients                                                        *)
(***************************************************************************)
Ok(text) == [ok |-> TRUE, text |-> text, err |-> ""]
Throw(msg) == [ok |-> FALSE, text |-> <<>>, err |-> msg]

\* result += chunk.choices[0]?.delta?.content || ""   over the stream
RECURSIVE concatChunks(_)
concatChunks(chunks) ==
    IF chunks = <<>> THEN <<>>
    ELSE (IF Head(chunks) = UNDEF THEN <<>> ELSE Head(chunks))
         \o concatChunks(Tail(chunks))

\* headline variant: streaming chat completion
generateGroq_H(e, resp) ==
    IF ~e.GROQ_API_KEY THEN Throw("No GROQ key")
    ELSE IF resp.kind = "error" THEN Throw("Groq request failed")
    ELSE IF resp.kind = "malformed" THEN Throw("TypeError: chunk.choices")
    ELSE LET result == concatChunks(resp.chunks)
         IN  IF result = <<>> THEN Throw("Empty Groq response")
             ELSE Ok(ReplaceAll(result, NL, <<SP>>))

\* both variants
generateGemini(e, resp) ==
    IF ~e.GEMINI_API_KEY THEN Throw("No GEMINI key")
    ELSE IF resp.kind = "error" THEN Throw("Gemini request failed")
    ELSE LET text == IF resp.kind = "malformed" THEN UNDEF ELSE Trim(resp.text)
         IN  IF text = UNDEF \/ text = <<>> THEN Throw("Empty Gemini response")
             ELSE Ok(ReplaceAll(text, NL, <<SP>>))

\* local-fallback variant: completion endpoint over fetch
generateGroq_L(e, resp) ==
    IF ~e.GROQ_API_KEY THEN Throw("No GROQ key")
    ELSE IF resp.kind = "error" THEN Throw("Groq request failed")
    ELSE LET text == IF resp.kind = "malformed" THEN UNDEF ELSE Trim(resp.text)
         IN  IF text = UNDEF \/ text = <<>> THEN Throw("Empty Groq response")
             ELSE Ok(ReplaceAll(text, NL, <<SP>>))

(***************************************************************************)
(* generateWithFallback                                                    *)
(*                                                                         *)
(* The value is a record of everything the call did:                       *)
(*   attempts  the providers invoked, in order, each with what it returned *)
(*   warns     the console.warn lines                                      *)
(*   out       what the call returned to (or threw at) its caller          *)
(***************************************************************************)
Attempt(who, r) == [who |-> who, r |-> r]

\* Variant of generateWithFallback_H in which the Gemini call is made before
\* the outcome of the Groq call is looked at.
generateWithFallback_H_eager(e, rGroq, rGemini) ==
    LET g == generateGroq_H(e, rGroq)
        m == generateGemini(e, rGemini)
    IN  IF e.GEMINI_API_KEY
        THEN [attempts |-> <<Attempt("groq", g), Attempt("gemini", m)>>,
              warns    |-> IF g.ok THEN <<>> ELSE <<[who |-> "groq", msg |-> g.err]>>,
              out      |-> IF g.ok THEN g ELSE m]
        ELSE [attempts |-> <<Attempt("groq", g)>>,
              warns    |-> IF g.ok THEN <<>> ELSE <<[who |-> "groq", msg |-> g.err]>>,
              out      |-> g]

\* Variant of generateWithFallback_H whose catch block rethrows without
\* trying Gemini.
generateWithFallback_H_rethrow(e, rGroq, rGemini) ==
    LET g == generateGroq_H(e, rGroq)
    IN  [attempts |-> <<Attempt("groq", g)>>,
         warns    |-> IF g.ok THEN <<>> ELSE <<[who |-> "groq", msg |-> g.err]>>,
         out      |-> g]

generateWithFallback_H(e, rGroq, rGemini) ==
    LET g == generateGroq_H(e, rGroq)
    IN  IF g.ok
        THEN [attempts |-> <<Attempt("groq", g)>>, warns |-> <<>>, out |-> g]
        ELSE IF e.GEMINI_API_KEY
             THEN LET m == generateGemini(e, rGemini)
                  IN  [attempts |-> <<Attempt("groq", g), Attempt("gemini", m)>>,
                       warns    |-> <<[who |-> "groq", msg |-> g.err]>>,
                       out      |-> m]
             ELSE [attempts |-> <<Attempt("groq", g)>>,
                   warns    |-> <<[who |-> "groq", msg |-> g.err]>>,
                   out      |-> g]

\* Variant of generateWithFallback_L whose inner catch block rethrows the
\* Groq error instead of picking from the local list.
generateWithFallback_L_rethrow(e, localFallback, rGemini, rGroq, rnd) ==
    LET m == generateGemini(e, rGemini)
        g == generateGroq_L(e, rGroq)
    IN  IF m.ok
        THEN [attempts |-> <<Attempt("gemini", m)>>, warns |-> <<>>, out |-> m]
        ELSE [attempts |-> <<Attempt("gemini", m), Attempt("groq", g)>>,
              warns    |-> <<[who |-> "gemini", msg |-> m.err]>>
                           \o (IF g.ok THEN <<>> ELSE <<[who |-> "groq", msg |-> g.err]>>),
              out      |-> g]

\* rnd is Math.floor(Math.random() * localFallback.length), counted from 1
generateWithFallback_L(e, localFallback, rGemini, rGroq, rnd) ==
    LET m == generateGemini(e, rGemini)
    IN  IF m.ok
        THEN [attempts |-> <<Attempt("gemini", m)>>, warns |-> <<>>, out |-> m]
        ELSE LET g == generateGroq_L(e, rGroq)
             IN  IF g.ok
                 THEN [attempts |-> <<Attempt("gemini", m), Attempt("groq", g)>>,
                       warns    |-> <<[who |-> "gemini", msg |-> m.err]>>,
                       out      |-> g]
                 ELSE LET fallback == localFallback[rnd]
                      IN  [attempts |-> <<Attempt("gemini", m), Attempt("groq", g),
                                          Attempt("local", Ok(fallback))>>,
                           warns    |-> <<[who |-> "gemini", msg |-> m.err],
                                          [who |-> "groq", msg |-> g.err],
                                          [who |-> "local", msg |-> "Using local fallback"]>>,
                           out      |-> Ok(fallback)]

(***************************************************************************)
(* News fetchers                                                           *)
(***************************************************************************)
\* data?.articles?.[0]?.title
firstTitle(resp) == IF resp.articles = <<>> THEN UNDEF ELSE resp.articles[1]

fetchNewsAPI(e, resp) ==
    IF ~e.NEWS_API_KEY THEN Throw("No NewsAPI")
    ELSE IF resp.kind = "error" THEN Throw("NewsAPI request failed")
    ELSE Ok(firstTitle(resp))

fetchGNews(e, resp) ==
    IF ~e.NEWS_API_KEY_2 THEN Throw("No GNews")
    ELSE IF resp.kind = "error" THEN Throw("GNews request failed")
    ELSE Ok(firstTitle(resp))

(***************************************************************************)
(* Files                                                                   *)
(*                                                                         *)
(* A log file is the sequence of the strings appended to it; its content   *)
(* is their concatenation.  An overwritten file is <<>> while it does not  *)
(* exist and <<content>> once written.                                     *)
(***************************************************************************)
RECURSIVE Content(_)
Content(file) == IF file = <<>> THEN <<>> ELSE Head(file) \o Content(Tail(file))

\* fs.appendFileSync(file, data)
appendFileSync(file, data) == Append(file, data)

\* the lines of a text file: the newline-terminated pieces of its content
FileLines(file) ==
    LET parts == Split(Content(file), NL)
    IN  SubSeq(parts, 1, Len(parts) - 1)

getLastLine(file) ==
    IF file = <<>> THEN <<>>
    ELSE LET lines == Split(Trim(Content(file)), NL)
         IN  lines[Len(lines)]

Files == [jokes |-> jokesTxt, news |-> newsTxt, reaction |-> reactionTxt,
          jokeSvg |-> jokeSvg, newsSvg |-> newsSvg]

fileVars == <<jokesTxt, newsTxt, reactionTxt, jokeSvg, newsSvg>>

Warn(w) == [level |-> "warn", who |-> w.who, msg |-> w.msg]
Error(msg) == [level |-> "error", who |-> "main", msg |-> msg]

RECURSIVE Warns(_)
Warns(ws) == IF ws = <<>> THEN <<>> ELSE <<Warn(Head(ws))>> \o Warns(Tail(ws))

\* `[${dateStr}] ${joke}\n`
jokeLine(dateStr, text) == <<"[">> \o dateStr \o <<"]", SP>> \o Str(text) \o <<NL>>

\* `[${dateStr}] [${category.toUpperCase()}] ${headline}\n`
newsLine_H(dateStr, cat, h) ==
    <<"[">> \o dateStr \o <<"]", SP, "[">> \o toUpperCase(cat) \o <<"]", SP>>
        \o Str(h) \o <<NL>>

IdleIn == [fn |-> "none"]
IdleOut == [done |-> FALSE, val |-> <<>>]

\* the attempts a generateWithFallback call made
Who(c) == {c.attempts[i].who : i \in 1..Len(c.attempts)}

(***************************************************************************)
(* The process                                                             *)
(***************************************************************************)
Envs_H == [GROQ_API_KEY : BOOLEAN, GEMINI_API_KEY : BOOLEAN,
           NEWS_API_KEY : BOOLEAN, NEWS_API_KEY_2 : BOOLEAN]

\* the local-fallback variant reads only the two generation keys
Envs_L == [GROQ_API_KEY : BOOLEAN, GEMINI_API_KEY : BOOLEAN,
           NEWS_API_KEY : {FALSE}, NEWS_API_KEY_2 : {FALSE}]

Envs(v) == IF v = "H" THEN Envs_H ELSE Envs_L

NoFiles == [jokes |-> <<>>, news |-> <<>>, reaction |-> <<>>,
            jokeSvg |-> <<>>, newsSvg |-> <<>>]

Init ==
    /\ variant \in {"H", "L"}
    /\ env \in Envs(variant)
    /\ today \in Days
    /\ pc = "start"
    /\ runs = 1
    /\ exitCode = 0
    /\ headline = UNDEF
    /\ joke = <<>>
    /\ reaction = <<>>
    /\ invoked = {}
    /\ stderr = <<>>
    /\ jokesTxt = <<>>
    /\ newsTxt = <<>>
    /\ reactionTxt = <<>>
    /\ jokeSvg = <<>>
    /\ newsSvg = <<>>
    /\ pre = NoFiles
    /\ fnIn = IdleIn
    /\ fnOut = IdleOut

\* process.exit(1) after console.error
Die(msg) ==
    /\ stderr' = Append(stderr, Error(msg))
    /\ exitCode' = 1
    /\ pc' = "exited"

\* a generateWithFallback call threw: main().catch logs the error and exits 1
DieAfter(c) ==
    /\ stderr' = stderr \o Warns(c.warns) \o <<Error(c.out.err)>>
    /\ exitCode' = 1
    /\ pc' = "exited"

\* ---- headline variant ----

checkKeys_H ==
    /\ variant = "H"
    /\ pc = "start"
    /\ IF ~env.GROQ_API_KEY /\ ~env.GEMINI_API_KEY
          /\ ~env.NEWS_API_KEY /\ ~env.NEWS_API_KEY_2
       THEN Die("Missing API keys")
       ELSE /\ pc' = "fetch"
            /\ UNCHANGED <<stderr, exitCode>>
    /\ UNCHANGED <<variant, env, today, runs, headline, joke, reaction, invoked,
                   pre, fnIn, fnOut>>
    /\ UNCHANGED fileVars

fetchHeadline_H ==
    /\ variant = "H"
    /\ pc = "fetch"
    /\ \E resp \in NewsAnswers :
         LET r == IF useGNews(today) THEN fetchGNews(env, resp)
                                     ELSE fetchNewsAPI(env, resp)
         IN  IF r.ok
             THEN /\ headline' = r.text
                  /\ pc' = "joke"
                  /\ UNCHANGED <<stderr, exitCode>>
             ELSE /\ Die(r.err)
                  /\ UNCHANGED headline
    /\ UNCHANGED <<variant, env, today, runs, joke, reaction, invoked,
                   pre, fnIn, fnOut>>
    /\ UNCHANGED fileVars

\* Variant of generateJoke_H that appends the joke to jokes.txt as soon as it
\* is generated, before the reaction is asked for.
generateJoke_H_early ==
    /\ variant = "H"
    /\ pc = "joke"
    /\ \E rq \in RunGroqStreams, rm \in RunGeminiAnswers :
         LET c == generateWithFallback_H(env, rq, rm)
         IN  /\ invoked' = invoked \cup Who(c)
             /\ IF c.out.ok
                THEN /\ joke' = c.out.text
                     /\ jokesTxt' = appendFileSync(jokesTxt,
                                                   jokeLine(today.iso, c.out.text))
                     /\ stderr' = stderr \o Warns(c.warns)
                     /\ pc' = "reaction"
                     /\ UNCHANGED exitCode
                ELSE /\ DieAfter(c)
                     /\ UNCHANGED <<joke, jokesTxt>>
    /\ UNCHANGED <<variant, env, today, runs, headline, reaction,
                   pre, fnIn, fnOut>>
    /\ UNCHANGED <<newsTxt, reactionTxt, jokeSvg, newsSvg>>

generateJoke_H ==
    /\ variant = "H"
    /\ pc = "joke"
    /\ \E rq \in RunGroqStreams, rm \in RunGeminiAnswers :
         LET c == generateWithFallback_H(env, rq, rm)
         IN  /\ invoked' = invoked \cup Who(c)
             /\ IF c.out.ok
                THEN /\ joke' = c.out.text
                     /\ stderr' = stderr \o Warns(c.warns)
                     /\ pc' = "reaction"
                     /\ UNCHANGED exitCode
                ELSE /\ DieAfter(c)
                     /\ UNCHANGED joke
    /\ UNCHANGED <<variant, env, today, runs, headline, reaction,
                   pre, fnIn, fnOut>>
    /\ UNCHANGED fileVars

generateReaction_H ==
    /\ variant = "H"
    /\ pc = "reaction"
    /\ \E rq \in RunGroqStreams, rm \in RunGeminiAnswers :
         LET c == generateWithFallback_H(env, rq, rm)
         IN  /\ invoked' = invoked \cup Who(c)
             /\ IF c.out.ok
                THEN /\ reaction' = c.out.text
                     /\ stderr' = stderr \o Warns(c.warns)
                     /\ pc' = "write"
                     /\ UNCHANGED exitCode
                ELSE /\ DieAfter(c)
                     /\ UNCHANGED reaction
    /\ UNCHANGED <<variant, env, today, runs, headline, joke,
                   pre, fnIn, fnOut>>
    /\ UNCHANGED fileVars

\* main, lines 175-194: the two appends, reaction.txt, the two badges
writeOutputs_H ==
    /\ variant = "H"
    /\ pc = "write"
    /\ LET jokes1 == appendFileSync(jokesTxt, jokeLine(today.iso, joke))
           news1  == appendFileSync(newsTxt,
                                    newsLine_H(today.iso, category(today), headline))
           jsvg   == writeSvg_H(DailyJoke, getLastLine(jokes1), "#3fb950", today.iso)
           nsvg   == writeSvg_H(DailyNews, headline,
                                categoryColors(category(today)), today.iso)
       IN  /\ jokesTxt' = jokes1
           /\ newsTxt' = news1
           /\ reactionTxt' = <<reaction>>
           /\ jokeSvg' = IF jsvg.ok THEN jsvg.doc ELSE jokeSvg
           /\ IF jsvg.ok /\ nsvg.ok
              THEN /\ newsSvg' = nsvg.doc
                   /\ exitCode' = 0
                   /\ pc' = "exited"
                   /\ UNCHANGED stderr
              ELSE /\ Die("TypeError: text.split")
                   /\ UNCHANGED newsSvg
    /\ UNCHANGED <<variant, env, today, runs, headline, joke, reaction, invoked,
                   pre, fnIn, fnOut>>

\* ---- local-fallback variant ----

jokeFallbacks == <<JokeFallback1, JokeFallback2, JokeFallback3>>
newsFallbacks == <<NewsFallback1, NewsFallback2, NewsFallback3>>

checkKeys_L ==
    /\ variant = "L"
    /\ pc = "start"
    /\ IF ~env.GEMINI_API_KEY /\ ~env.GROQ_API_KEY
       THEN Die("Missing GEMINI_API_KEY and GROQ_API_KEY")
       ELSE /\ pc' = "joke"
            /\ UNCHANGED <<stderr, exitCode>>
    /\ UNCHANGED <<variant, env, today, runs, headline, joke, reaction, invoked,
                   pre, fnIn, fnOut>>
    /\ UNCHANGED fileVars

generateJoke_L ==
    /\ variant = "L"
    /\ pc = "joke"
    /\ \E rm \in RunGeminiAnswers, rq \in RunGroqAnswers,
          rnd \in 1..Len(jokeFallbacks) :
         LET c == generateWithFallback_L(env, jokeFallbacks, rm, rq, rnd)
         IN  /\ invoked' = invoked \cup Who(c)
             /\ IF c.out.ok
                THEN /\ joke' = c.out.text
                     /\ stderr' = stderr \o Warns(c.warns)
                     /\ pc' = "reaction"
                     /\ UNCHANGED exitCode
                ELSE /\ DieAfter(c)
                     /\ UNCHANGED joke
    /\ UNCHANGED <<variant, env, today, runs, headline, reaction,
                   pre, fnIn, fnOut>>
    /\ UNCHANGED fileVars

generateNews_L ==
    /\ variant = "L"
    /\ pc = "reaction"
    /\ \E rm \in RunGeminiAnswers, rq \in RunGroqAnswers,
          rnd \in 1..Len(newsFallbacks) :
         LET c == generateWithFallback_L(env, newsFallbacks, rm, rq, rnd)
         IN  /\ invoked' = invoked \cup Who(c)
             /\ IF c.out.ok
                THEN /\ reaction' = c.out.text
                     /\ stderr' = stderr \o Warns(c.warns)
                     /\ pc' = "write"
                     /\ UNCHANGED exitCode
                ELSE /\ DieAfter(c)
                     /\ UNCHANGED reaction
    /\ UNCHANGED <<variant, env, today, runs, headline, joke,
                   pre, fnIn, fnOut>>
    /\ UNCHANGED fileVars

\* main, lines 348-354
writeOutputs_L ==
    /\ variant = "L"
    /\ pc = "write"
    /\ LET jokes1 == appendFileSync(jokesTxt, jokeLine(today.iso, joke))
           news1  == appendFileSync(newsTxt, jokeLine(today.iso, reaction))
           jsvg   == writeSvg_L(DailyJoke, getLastLine(jokes1), "#3fb950", today.iso)
           nsvg   == writeSvg_L(DailyTechNews, getLastLine(news1), "#58a6ff", today.iso)
       IN  /\ jokesTxt' = jokes1
           /\ newsTxt' = news1
           /\ jokeSvg' = IF jsvg.ok THEN jsvg.doc ELSE jokeSvg
           /\ IF jsvg.ok /\ nsvg.ok
              THEN /\ newsSvg' = nsvg.doc
                   /\ exitCode' = 0
                   /\ pc' = "exited"
                   /\ UNCHANGED stderr
              ELSE /\ Die("TypeError: text.split")
                   /\ UNCHANGED newsSvg
    /\ UNCHANGED <<variant, env, today, runs, headline, joke, reaction, invoked,
                   pre, fnIn, fnOut, reactionTxt>>

\* the scheduler starts the script again: a fresh process, which reads the
\* clock and process.env anew, over the files the earlier runs left
nextRun ==
    /\ pc = "exited"
    /\ runs < MaxRuns
    /\ runs' = runs + 1
    /\ pc' = "start"
    /\ exitCode' = 0
    /\ headline' = UNDEF
    /\ joke' = <<>>
    /\ reaction' = <<>>
    /\ invoked' = {}
    /\ stderr' = <<>>
    /\ pre' = Files
    /\ today' \in Days
    /\ env' \in Envs(variant)
    /\ UNCHANGED <<variant, fnIn, fnOut>>
    /\ UNCHANGED fileVars

Next ==
    \/ checkKeys_H
    \/ fetchHeadline_H
    \/ generateJoke_H
    \/ generateReaction_H
    \/ writeOutputs_H
    \/ checkKeys_L
    \/ generateJoke_L
    \/ generateNews_L
    \/ writeOutputs_L
    \/ nextRun

Spec == Init /\ [][Next]_vars

(***************************************************************************)
(* Function harness: each function of the program applied to inputs drawn  *)
(* from bounded sets.                                                      *)
(***************************************************************************)
\* every sequence over S of length at most n
BoundedSeq(S, n) == UNION {[1..k -> S] : k \in 0..n}

WrapInputs ==
    [fn : {"wrapText"}, text : BoundedSeq({"a", "b", SP}, MaxWrapLen),
     maxChars : 1..MaxWrapWidth]

SvgTexts == BoundedSeq({"x", "&", "<", ">"}, MaxSvgLen) \cup {AMP}

SvgInputs ==
    [fn : {"writeSvg"}, variant : {"H", "L"}, title : SvgTexts, content : SvgTexts]

ProviderInputs ==
    [fn : {"generateGroq_H"}, env : Envs_L, resp : GroqStreams]
        \cup [fn : {"generateGemini"}, env : Envs_L, resp : GeminiAnswers]
        \cup [fn : {"generateGroq_L"}, env : Envs_L, resp : GroqAnswers]

\* the lists main passes, and the one-entry list ["X"]
FallbackLists == {jokeFallbacks, newsFallbacks, << <<"X">> >>}

FallbackInputs ==
    [fn : {"generateWithFallback_H"}, env : Envs_L, rq : GroqStreams,
     rm : GeminiAnswers]
        \cup UNION {[fn : {"generateWithFallback_L"}, env : Envs_L, list : {l},
                     rm : GeminiAnswers, rq : GroqAnswers, rnd : 1..Len(l)] :
                        l \in FallbackLists}

InitFn ==
    /\ variant = "H"
    /\ env = [GROQ_API_KEY |-> FALSE, GEMINI_API_KEY |-> FALSE,
              NEWS_API_KEY |-> FALSE, NEWS_API_KEY_2 |-> FALSE]
    /\ today = Day1
    /\ pc = "idle"
    /\ runs = 0
    /\ exitCode = 0
    /\ headline = UNDEF
    /\ joke = <<>>
    /\ reaction = <<>>
    /\ invoked = {}
    /\ stderr = <<>>
    /\ jokesTxt = <<>>
    /\ newsTxt = <<>>
    /\ reactionTxt = <<>>
    /\ jokeSvg = <<>>
    /\ newsSvg = <<>>
    /\ pre = NoFiles
    /\ fnIn \in WrapInputs \cup SvgInputs \cup ProviderInputs \cup FallbackInputs
    /\ fnOut = IdleOut

Return(v) ==
    /\ ~fnOut.done
    /\ fnOut' = [done |-> TRUE, val |-> v]
    /\ UNCHANGED fnIn
    /\ UNCHANGED runVars

call_wrapText ==
    /\ fnIn.fn = "wrapText"
    /\ Return(wrapText(fnIn.text, fnIn.maxChars))

call_writeSvg ==
    /\ fnIn.fn = "writeSvg"
    /\ Return(IF fnIn.variant = "H"
              THEN writeSvg_H(fnIn.title, fnIn.content, "#3fb950", Date1)
              ELSE writeSvg_L(fnIn.title, fnIn.content, "#3fb950", Date1))

call_generateGroq_H ==
    /\ fnIn.fn = "generateGroq_H"
    /\ Return(generateGroq_H(fnIn.env, fnIn.resp))

call_generateGemini ==
    /\ fnIn.fn = "generateGemini"
    /\ Return(generateGemini(fnIn.env, fnIn.resp))

call_generateGroq_L ==
    /\ fnIn.fn = "generateGroq_L"
    /\ Return(generateGroq_L(fnIn.env, fnIn.resp))

call_generateWithFallback_H ==
    /\ fnIn.fn = "generateWithFallback_H"
    /\ Return(generateWithFallback_H(fnIn.env, fnIn.rq, fnIn.rm))

call_generateWithFallback_L ==
    /\ fnIn.fn = "generateWithFallback_L"
    /\ Return(generateWithFallback_L(fnIn.env, fnIn.list, fnIn.rm, fnIn.rq, fnIn.rnd))

NextFn ==
    \/ call_wrapText
    \/ call_writeSvg
    \/ call_generateGroq_H
    \/ call_generateGemini
    \/ call_generateGroq_L
    \/ call_generateWithFallback_H
    \/ call_generateWithFallback_L

SpecFn == InitFn /\ [][NextFn]_vars

Returned(f) == fnIn.fn = f /\ fnOut.done

(***************************************************************************)
(* Properties of generateWithFallback (SpecFn)                             *)
(***************************************************************************)
IsPrefix(a, b) == Len(a) <= Len(b) /\ \A i \in 1..Len(a) : a[i] = b[i]

\* the fixed priority order of each variant
Priority(f) ==
    IF f = "generateWithFallback_H" THEN <<"groq", "gemini">>
    ELSE <<"gemini", "groq", "local">>

IsFallbackCall == fnIn.fn \in {"generateWithFallback_H", "generateWithFallback_L"}

\* what attempt `who` returns on the inputs of the call, were it invoked
Outcome(who) ==
    IF fnIn.fn = "generateWithFallback_H"
    THEN (IF who = "groq" THEN generateGroq_H(fnIn.env, fnIn.rq)
          ELSE generateGemini(fnIn.env, fnIn.rm))
    ELSE (IF who = "gemini" THEN generateGemini(fnIn.env, fnIn.rm)
          ELSE IF who = "groq" THEN generateGroq_L(fnIn.env, fnIn.rq)
          ELSE Ok(fnIn.list[fnIn.rnd]))

\* C1: in both variants of generateWithFallback the attempts are made in the
\* fixed priority order, each at most once (the attempts made are a prefix of
\* the order, each returning what that provider returns on the call's
\* inputs); no attempt follows one that succeeded; and when an attempt
\* succeeded the call returns that attempt's text.
C1_FirstSuccessWins ==
    (IsFallbackCall /\ fnOut.done) =>
        LET c == fnOut.val
            n == Len(c.attempts)
        IN  /\ n >= 1
            /\ IsPrefix([i \in 1..n |-> c.attempts[i].who], Priority(fnIn.fn))
            /\ \A i \in 1..n : c.attempts[i].r = Outcome(c.attempts[i].who)
            /\ \A i \in 1..(n - 1) : ~c.attempts[i].r.ok
            /\ \A i \in 1..n : c.attempts[i].r.ok => c.out = Ok(c.attempts[i].r.text)

\* C1 witness: Groq succeeded in the headline variant with Gemini configured,
\* and Gemini was not invoked.
C1_Witness ==
    /\ Returned("generateWithFallback_H")
    /\ fnIn.env.GEMINI_API_KEY
    /\ fnIn.rm.kind = "json"
    /\ Len(fnOut.val.attempts) = 1
    /\ fnOut.val.out.ok
    /\ fnOut.val.out.text = <<"q", SP, "k">>

\* C2: the local-fallback variant never fails when the list has at least one
\* entry: it returns the text of the first successful remote attempt or, when
\* both remote attempts fail, an element of the list.
C2_LocalNeverFails ==
    Returned("generateWithFallback_L") =>
        LET m == generateGemini(fnIn.env, fnIn.rm)
            g == generateGroq_L(fnIn.env, fnIn.rq)
            out == fnOut.val.out
        IN  /\ out.ok
            /\ m.ok => out.text = m.text
            /\ (~m.ok /\ g.ok) => out.text = g.text
            /\ (~m.ok /\ ~g.ok) =>
                  \E i \in 1..Len(fnIn.list) : out.text = fnIn.list[i]

\* C2 witness: both remote attempts failed and the list ["X"] gave "X".
C2_Witness ==
    /\ Returned("generateWithFallback_L")
    /\ fnIn.list = << <<"X">> >>
    /\ fnIn.env.GEMINI_API_KEY /\ fnIn.rm.kind = "error"
    /\ ~fnIn.env.GROQ_API_KEY
    /\ Len(fnOut.val.attempts) = 3
    /\ fnOut.val.out = Ok(<<"X">>)

Warned(c, a) == \E k \in 1..Len(c.warns) :
                    c.warns[k].who = a.who /\ c.warns[k].msg = a.r.err

\* a later attempt remains after attempt i of the chain
LaterRemains(i) ==
    IF fnIn.fn = "generateWithFallback_H" THEN i = 1 /\ fnIn.env.GEMINI_API_KEY
    ELSE i < 3

\* the part of C9 that does not concern the warnings: a failure is not
\* surfaced while a later attempt remains, that attempt is tried, and an
\* error that reaches the caller is the error of the last attempt made
C9_Propagation(c) ==
    LET n == Len(c.attempts)
    IN  /\ \A i \in 1..n :
              (~c.attempts[i].r.ok /\ LaterRemains(i)) => i < n
        /\ ~c.out.ok => (~LaterRemains(n) /\ c.out.err = c.attempts[n].r.err)

\* C9 as stated: every failure of a provider attempt is logged as a warning,
\* a failure is not surfaced while a later attempt remains, and the error
\* that reaches the caller is that of the last attempt made.
C9_EveryFailureWarned ==
    (IsFallbackCall /\ fnOut.done) =>
        LET c == fnOut.val
        IN  /\ \A i \in 1..Len(c.attempts) :
                  ~c.attempts[i].r.ok => Warned(c, c.attempts[i])
            /\ C9_Propagation(c)

\* C9 amended: a failed attempt is logged as a warning exactly when
\* generateWithFallback catches it, which is every failure except that of
\* Gemini in the Groq -> Gemini variant (thrown to the caller unlogged);
\* the rest of the claim as stated.
C9_CaughtFailuresWarned ==
    (IsFallbackCall /\ fnOut.done) =>
        LET c == fnOut.val
        IN  /\ \A i \in 1..Len(c.attempts) :
                  ~c.attempts[i].r.ok =>
                      (Warned(c, c.attempts[i])
                          <=> ~(fnIn.fn = "generateWithFallback_H"
                                  /\ c.attempts[i].who = "gemini"))
            /\ C9_Propagation(c)

\* C9 witness: Groq and then Gemini failed in the headline variant; the
\* caller gets Gemini's error, and only Groq's failure was logged.
C9_Witness ==
    /\ Returned("generateWithFallback_H")
    /\ Len(fnOut.val.attempts) = 2
    /\ ~fnOut.val.out.ok
    /\ fnOut.val.out.err = "Empty Gemini response"
    /\ Len(fnOut.val.warns) = 1
    /\ fnOut.val.warns[1].msg = "Groq request failed"

(***************************************************************************)
(* Properties of the provider clients (SpecFn)                             *)
(***************************************************************************)
IsProviderCall == fnIn.fn \in {"generateGroq_H", "generateGemini", "generateGroq_L"}

Credential ==
    IF fnIn.fn = "generateGemini" THEN fnIn.env.GEMINI_API_KEY
    ELSE fnIn.env.GROQ_API_KEY

\* the text the service sent, before the client looks at it
SentText ==
    IF fnIn.fn = "generateGroq_H" THEN concatChunks(fnIn.resp.chunks)
    ELSE fnIn.resp.text

\* C6: every provider client either fails or returns a single-line text that
\* is non-empty after trimming: it fails when its credential is absent, when
\* the call errors, when the payload is malformed and when the text is empty
\* after trimming; a text it returns holds no line break.
C6_ProviderContract ==
    (IsProviderCall /\ fnOut.done) =>
        LET r == fnOut.val
        IN  /\ r.ok => (Trim(r.text) # <<>> /\ \A i \in 1..Len(r.text) : r.text[i] # NL)
            /\ (~Credential \/ fnIn.resp.kind \in {"error", "malformed"}
                  \/ Trim(SentText) = <<>>) => ~r.ok

(***************************************************************************)
(* Properties of wrapText and writeSvg (SpecFn)                            *)
(***************************************************************************)
NonEmpty(w) == w # <<>>

\* the words of a text: what stands between its spaces
Words(text) == SelectSeq(Split(text, SP), NonEmpty)

\* C7: the lines wrapText returns, rejoined with single spaces, equal the
\* input normalised to single spaces between words; no line is empty; a word
\* longer than the width sits alone on a line; empty input gives no line.
C7_WrapRoundTrip ==
    Returned("wrapText") =>
        LET lines == fnOut.val
            words == Words(fnIn.text)
        IN  /\ Join(lines, <<SP>>) = Join(words, <<SP>>)
            /\ \A i \in 1..Len(lines) : lines[i] # <<>>
            /\ \A k \in 1..Len(words) :
                  Len(words[k]) > fnIn.maxChars =>
                      \E i \in 1..Len(lines) : lines[i] = words[k]
            /\ fnIn.text = <<>> => lines = <<>>

StartsWith(t, i, e) == i + Len(e) - 1 <= Len(t) /\ SubSeq(t, i, i + Len(e) - 1) = e

\* no raw '&', '<' or '>' in an embedded text: none of '<' and '>', and each
\* '&' opens one of the three entities
NoRaw(t) ==
    \A i \in 1..Len(t) :
        /\ t[i] \notin {"<", ">"}
        /\ t[i] = "&" => (StartsWith(t, i, AMP) \/ StartsWith(t, i, LT)
                             \/ StartsWith(t, i, GT))

\* the text an escaped text stands for
RECURSIVE Unescape(_)
Unescape(t) ==
    IF t = <<>> THEN <<>>
    ELSE IF StartsWith(t, 1, AMP) THEN <<"&">> \o Unescape(SubSeq(t, 6, Len(t)))
    ELSE IF StartsWith(t, 1, LT) THEN <<"<">> \o Unescape(SubSeq(t, 5, Len(t)))
    ELSE IF StartsWith(t, 1, GT) THEN <<">">> \o Unescape(SubSeq(t, 5, Len(t)))
    ELSE <<Head(t)>> \o Unescape(Tail(t))

\* C8: writeSvg escapes all text supplied to it: the title and every body
\* line are embedded with no raw '&', '<' or '>', each escaped once.
C8_AllTextEscaped ==
    (Returned("writeSvg") /\ fnOut.val.ok) =>
        LET doc == fnOut.val.doc[1]
            lines == wrapText(fnIn.content, DefaultMaxChars)
        IN  /\ NoRaw(doc.title)
            /\ Unescape(doc.title) = fnIn.title
            /\ Len(doc.text) = Len(lines)
            /\ \A i \in 1..Len(doc.text) :
                  NoRaw(doc.text[i].body) /\ Unescape(doc.text[i].body) = lines[i]

(***************************************************************************)
(* Properties of a run of the script (Spec)                                *)
(***************************************************************************)
Exited == pc = "exited"

\* zero generation / news credentials: what the key check of the variant tests
NoCredentials ==
    IF variant = "H"
    THEN ~env.GROQ_API_KEY /\ ~env.GEMINI_API_KEY
            /\ ~env.NEWS_API_KEY /\ ~env.NEWS_API_KEY_2
    ELSE ~env.GEMINI_API_KEY /\ ~env.GROQ_API_KEY

\* the run is past the headline fetch and has no headline: the selected
\* backend had no credential, was unreachable or returned no article
HeadlineFailed ==
    /\ variant = "H"
    /\ pc \in {"joke", "reaction", "write", "exited"}
    /\ ~NoCredentials
    /\ headline = UNDEF

\* the run ended in a generateWithFallback call that threw
GenerationFailed ==
    /\ variant = "H"
    /\ Exited
    /\ invoked # {}
    /\ joke = <<>> \/ reaction = <<>>

\* C3: in the headline variant a failed headline retrieval (no credential,
\* unreachable backend, zero articles) ends the run at once with a non-zero
\* status, before any generation provider is invoked and before any of the
\* five output files is touched.
C3_HeadlineFailureFatal ==
    HeadlineFailed =>
        /\ Exited
        /\ exitCode = 1
        /\ invoked = {}
        /\ Files = pre

\* C4 as stated: the exit status is non-zero exactly when no credential is
\* configured or headline retrieval failed.
C4_ExitStatus ==
    Exited => (exitCode # 0 <=> (NoCredentials \/ HeadlineFailed))

\* C4 amended: the exit status is non-zero exactly when no credential is
\* configured, headline retrieval failed, or (headline variant) a
\* generateWithFallback call failed with its chain exhausted.
C4_ExitStatusAmended ==
    Exited => (exitCode # 0 <=> (NoCredentials \/ HeadlineFailed \/ GenerationFailed))

\* C4 witness: the headline and the joke were obtained, the reaction call
\* failed, and the run exited 1.
C4_Witness ==
    /\ variant = "H"
    /\ Exited
    /\ exitCode = 1
    /\ headline # UNDEF
    /\ joke # <<>>
    /\ reaction = <<>>

\* C5: the log files are append-only across runs: the lines of earlier runs
\* stay in place, and a run that completes adds exactly one line to
\* jokes.txt and exactly one line to news.txt.
C5_OneLinePerRun ==
    /\ IsPrefix(FileLines(pre.jokes), FileLines(jokesTxt))
    /\ IsPrefix(FileLines(pre.news), FileLines(newsTxt))
    /\ (Exited /\ exitCode = 0) =>
          /\ Len(FileLines(jokesTxt)) = Len(FileLines(pre.jokes)) + 1
          /\ Len(FileLines(newsTxt)) = Len(FileLines(pre.news)) + 1

\* C10: in the headline variant a run whose joke or reaction generation
\* fails exits non-zero with the five files as they were before the run; no
\* file is written before both generations have succeeded; jokes.txt and
\* news.txt hold the same number of entries.
C10_GenerationFailureWritesNothing ==
    variant = "H" =>
        /\ GenerationFailed => (exitCode = 1 /\ Files = pre)
        /\ pc \in {"start", "fetch", "joke", "reaction", "write"} => Files = pre
        /\ Len(jokesTxt) = Len(newsTxt)

\* C10 witness: a second run, over the files a first run left, obtained the
\* joke and failed on the reaction.
C10_Witness ==
    /\ variant = "H"
    /\ runs = 2
    /\ GenerationFailed
    /\ joke # <<>>
    /\ pre.jokes # <<>>
    /\ pre.newsSvg # <<>>
    /\ Files = pre

====
